---- MODULE Spec2Model ----
(***************************************************************************)
(* Model of the transcript pruning engine of ccc:                          *)
(*   pruneSessionLines (index.ts), detectBoundaries and pruneToBoundary    *)
(*   (boundary-detector.ts).                                               *)
(*                                                                         *)
(* A transcript line is a record of the properties of the line text that   *)
(* the code reads: whether JSON.parse accepts it, the parsed fields, the   *)
(* amount of insignificant whitespace (lost by JSON.stringify) and the     *)
(* length of the text.  JavaScript indexes are 0-based: line i of the code *)
(* is lines[i + 1] here.                                                   *)
(***************************************************************************)
EXTENDS Integers, Sequences, FiniteSets, TLC

VARIABLES lines, pc, op, arg, res, src, analysis, rewrites, res2, cli, hook

vars == <<lines, pc, op, arg, res, src, analysis, rewrites, res2, cli, hook>>

(* ---------------------------- bounds --------------------------------- *)

MaxLen == 4

MaxKeep == 3

\* how many times in succession the usage-counter rewrite is applied
MaxRewrites == 2

\* the longest line list of the boundary detection specification
MaxBLen == 3

\* the longest line list of the usage counter specification
MaxULen == 4

(* --------------------------- line texts ------------------------------ *)

\* a falsy / missing id
NoId == ""

\* usage objects: <<>> is "no such object", <<c>> an object whose
\* cache_read_input_tokens is c (a missing counter reads as falsy, like 0)
NoUsage == <<>>

BlankLine ==
  [json |-> FALSE, type |-> "", uses |-> {}, tool_use_id |-> NoId,
   usage |-> NoUsage, musage |-> NoUsage, ws |-> 0, len |-> 12,
   marker |-> "none", tool_name |-> "", content |-> "", command |-> ""]

JsonLine(t) == [BlankLine EXCEPT !.json = TRUE, !.type = t, !.len = 20]

\* the line texts the pruning specification draws its input from
PruneLines ==
  { [BlankLine EXCEPT !.marker = "ts_intent", !.len = 40],
    JsonLine("system"),
    [JsonLine("user") EXCEPT !.usage = <<5>>, !.ws = 1, !.len = 51],
    [JsonLine("assistant") EXCEPT !.uses = {"T1"}, !.len = 60],
    [JsonLine("assistant") EXCEPT !.musage = <<7>>, !.len = 62],
    [JsonLine("tool_result") EXCEPT !.tool_use_id = "T1", !.tool_name = "bash",
                                    !.content = "2 files changed", !.len = 70],
    [JsonLine("tool_result") EXCEPT !.content = "tool output", !.len = 45],
    [JsonLine("summary") EXCEPT !.usage = <<0>>, !.musage = <<3>>, !.len = 80] }

\* the line texts the boundary detection specification draws its input from
BoundaryLines ==
  { \* plain text line!
    [BlankLine EXCEPT !.len = 16],
    \* 2 files changed
    [BlankLine EXCEPT !.content = "2 files changed", !.len = 15],
    \* ===INTENT_BOUNDARY===
    [BlankLine EXCEPT !.marker = "bare", !.len = 21],
    \* ===INTENT_BOUNDARY=== x
    [BlankLine EXCEPT !.marker = "ts", !.len = 23],
    \* {"type":"assistant","content":"===INTENT_BOUNDARY=== ts | intent"}
    [JsonLine("assistant") EXCEPT !.marker = "ts_intent", !.len = 66],
    \* {"type":"tool_call","tool_name":"bash",
    \*  "parameters":{"command":"git commit -m 'feat: X'"}}
    [JsonLine("tool_call") EXCEPT !.tool_name = "bash",
                                  !.command = "git commit -m 'feat: X'", !.len = 90],
    \* ... "parameters":{"command":"git add . && git commit -m \"fix: Y\""}}
    [JsonLine("tool_call") EXCEPT !.tool_name = "bash",
                                  !.command = "git add . && git commit -m \"fix: Y\"",
                                  !.len = 104],
    \* {"type":"tool_call","tool_name":"bash","parameters":{"command":"ls"}}
    [JsonLine("tool_call") EXCEPT !.tool_name = "bash", !.command = "ls", !.len = 69],
    \* {"type":"tool_result","tool_name":"bash","content":"2 files changed"}
    [JsonLine("tool_result") EXCEPT !.tool_name = "bash",
                                    !.content = "2 files changed", !.len = 69],
    \* ... "content":"1 file changed, 3 deletions(-)"}
    [JsonLine("tool_result") EXCEPT !.tool_name = "bash",
                                    !.content = "1 file changed, 3 deletions(-)",
                                    !.len = 84],
    \* ... "content":"===INTENT_BOUNDARY=== 1 file changed, 5 insertions(+)"}
    [JsonLine("tool_result") EXCEPT !.tool_name = "bash", !.marker = "ts",
                                    !.content = "1 file changed, 5 insertions(+)",
                                    !.len = 107],
    \* ... "content":"error: nothing to commit"}
    [JsonLine("tool_result") EXCEPT !.tool_name = "bash",
                                    !.content = "error: nothing to commit",
                                    !.len = 78],
    \* {"type":"tool_result","tool_name":"bash","content":""}
    [JsonLine("tool_result") EXCEPT !.tool_name = "bash", !.len = 54],
    \* {"type":"tool_result","tool_name":"grep","content":"2 files changed"}
    [JsonLine("tool_result") EXCEPT !.tool_name = "grep",
                                    !.content = "2 files changed", !.len = 69] }

\* the line texts the usage counter specification draws its input from: the
\* counter under usage, under message.usage, under both, on message records
\* and on other records
UsageLines ==
  { JsonLine("summary"),
    [JsonLine("summary") EXCEPT !.usage = <<5>>, !.ws = 1, !.len = 54],
    [JsonLine("user") EXCEPT !.usage = <<0>>, !.musage = <<3>>, !.len = 77],
    [JsonLine("user") EXCEPT !.musage = <<7>>, !.len = 59],
    JsonLine("assistant") }

RECURSIVE SeqsUpTo(_, _)
SeqsUpTo(S, n) ==
  IF n = 0 THEN {<<>>}
  ELSE LET shorter == SeqsUpTo(S, n - 1)
       IN  shorter \cup {Append(s, x) : s \in {t \in shorter : Len(t) = n - 1}, x \in S}

(* ------------------------ JavaScript helpers ------------------------- *)

\* a number or undefined (the result of reading an array out of range)
JsNum(v) == [defined |-> TRUE, val |-> v]
JsUndefined == [defined |-> FALSE, val |-> 0]

\* mutant: an undefined cut read as 0 (cutFrom ?? 0)
JsGE_UndefinedAsZero(idx, c) == idx >= (IF c.defined THEN c.val ELSE 0)

\* idx >= c, which is false when c is undefined
JsGE(idx, c) == c.defined /\ idx >= c.val

\* arr[i] of a JavaScript array of numbers
JsAt(arr, i) == IF i >= 0 /\ i < Len(arr) THEN JsNum(arr[i + 1]) ELSE JsUndefined

Max(a, b) == IF a >= b THEN a ELSE b

\* the 0-based indexes of a JavaScript array
Indexes(ls) == 0..(Len(ls) - 1)

\* the numbers of S in ascending order: the order in which forEach visits
\* the indexes that pass a test
RECURSIVE Ascending(_)
Ascending(S) ==
  IF S = {} THEN <<>>
  ELSE LET m == CHOOSE x \in S : \A y \in S : y <= x
       IN  Append(Ascending(S \ {m}), m)

MSG_TYPES == {"user", "assistant", "system"}

\* (() => { try { return JSON.parse(ln).type; } catch { return ""; } })()
TypeOf(ln) == IF ln.json THEN ln.type ELSE ""

IsMsg(ln) == TypeOf(ln) \in MSG_TYPES

\* obj.usage || obj.message?.usage
UsageObj(ln) == IF ln.usage # NoUsage THEN ln.usage ELSE ln.musage

\* usageObj?.cache_read_input_tokens && usageObj.cache_read_input_tokens > 0
CacheBearing(ln) == ln.json /\ UsageObj(ln) # NoUsage /\ UsageObj(ln)[1] > 0

\* mutant: the least index of a cache-bearing line
LastNonZeroCacheLineIndex_First(ls) ==
  LET hits == Ascending({i \in Indexes(ls) : CacheBearing(ls[i + 1])})
  IN  IF hits = <<>> THEN 0 - 1 ELSE hits[1]

\* the greatest index of a cache-bearing line, -1 when there is none
LastNonZeroCacheLineIndex(ls) ==
  LET hits == Ascending({i \in Indexes(ls) : CacheBearing(ls[i + 1])})
  IN  IF hits = <<>> THEN 0 - 1 ELSE hits[Len(hits)]

\* usageObj.cache_read_input_tokens = 0; return JSON.stringify(obj)
ZeroCache(ln) ==
  IF ~ln.json \/ UsageObj(ln) = NoUsage THEN ln
  ELSE [ln EXCEPT !.usage = IF ln.usage # NoUsage THEN <<0>> ELSE ln.usage,
                  !.musage = IF ln.usage # NoUsage THEN ln.musage ELSE <<0>>,
                  !.len = ln.len - ln.ws,
                  !.ws = 0]

\* mutant: every cache-bearing line zeroed
ProcessedLines_ZeroAll(ls) ==
  [k \in 1..Len(ls) |-> IF CacheBearing(ls[k]) THEN ZeroCache(ls[k]) ELSE ls[k]]

\* lines.map(...): the last cache-bearing line re-serialised with its counter zeroed
ProcessedLines(ls) ==
  LET last == LastNonZeroCacheLineIndex(ls)
  IN  [k \in 1..Len(ls) |-> IF k - 1 = last THEN ZeroCache(ls[k]) ELSE ls[k]]

\* mutant: the first line not skipped
ToolUseIdsOf_WithHead(ls, inKept) ==
  UNION { ls[idx + 1].uses : idx \in { j \in Indexes(ls) \cap inKept :
            ls[j + 1].json /\ ls[j + 1].type = "assistant" } }

\* the ids of the tool_use elements of the content of the assistant records
\* at the indexes idx >= 1 of inKept (the "identify kept tool_use_ids" pass)
ToolUseIdsOf(ls, inKept) ==
  UNION { ls[idx + 1].uses : idx \in { j \in Indexes(ls) \cap inKept :
            j # 0 /\ ls[j + 1].json /\ ls[j + 1].type = "assistant" } }

\* mutant: the tool_result filter left out
ShouldKeep_Always(ln, keptToolUseIds) == TRUE

\* shouldKeep of a non-message line
ShouldKeep(ln, keptToolUseIds) ==
  IF ln.json /\ ln.type = "tool_result" /\ ln.tool_use_id # NoId
  THEN ln.tool_use_id \in keptToolUseIds
  ELSE TRUE

(* ------------------------- pruneSessionLines ------------------------- *)

\* Pass 1: the indexes of the assistant records, the first line skipped
AssistantIndexes(ls) ==
  Ascending({i \in Indexes(ls) : i # 0 /\ TypeOf(ls[i + 1]) = "assistant"})

\* Pass 1: the indexes of the message records, the first line skipped
MsgIndexes(ls) ==
  Ascending({i \in Indexes(ls) : i # 0 /\ IsMsg(ls[i + 1])})

\* mutant: >= for > in the test of the assistant count
CutFrom_AtLeast(ls, keepN) ==
  LET assistantIndexes == AssistantIndexes(ls)
      keepNSafe == Max(0, keepN)
  IN  IF Len(assistantIndexes) >= keepNSafe
      THEN JsAt(assistantIndexes, Len(assistantIndexes) - keepNSafe)
      ELSE JsNum(0)

\* mutant: the cut one assistant record too early
CutFrom_OffByOne(ls, keepN) ==
  LET assistantIndexes == AssistantIndexes(ls)
      keepNSafe == Max(0, keepN)
  IN  IF Len(assistantIndexes) > keepNSafe
      THEN JsAt(assistantIndexes, Len(assistantIndexes) - keepNSafe - 1)
      ELSE JsNum(0)

\* mutant: keepN = 0 cuts at the first assistant record
CutFrom_FirstAssistant(ls, keepN) ==
  LET assistantIndexes == AssistantIndexes(ls)
      keepNSafe == Max(0, keepN)
  IN  IF Len(assistantIndexes) > keepNSafe
      THEN JsAt(assistantIndexes,
                IF keepNSafe = 0 THEN 0 ELSE Len(assistantIndexes) - keepNSafe)
      ELSE JsNum(0)

\* const keepNSafe = Math.max(0, keepN);
\* let cutFrom = 0;
\* if (assistantIndexes.length > keepNSafe)
\*   cutFrom = assistantIndexes[assistantIndexes.length - keepNSafe];
CutFrom(ls, keepN) ==
  LET assistantIndexes == AssistantIndexes(ls)
      keepNSafe == Max(0, keepN)
  IN  IF Len(assistantIndexes) > keepNSafe
      THEN JsAt(assistantIndexes, Len(assistantIndexes) - keepNSafe)
      ELSE JsNum(0)

\* mutant: the tool_use ids of every assistant record, kept or not
PslKeptToolUseIds_All(ls, keepN) == ToolUseIdsOf(ls, Indexes(ls))

\* Pass 2: tool_use ids of the assistant records at idx >= cutFrom
PslKeptToolUseIds(ls, keepN) ==
  ToolUseIdsOf(ls, {idx \in Indexes(ls) : JsGE(idx, CutFrom(ls, keepN))})

\* mutant: every line before the cut excluded, whatever its kind
PslPushes_CutAll(ln, idx, cutFrom, keptToolUseIds) ==
  JsGE(idx, cutFrom) /\ (IsMsg(ln) \/ ShouldKeep(ln, keptToolUseIds))

\* Pass 3: whether processed line ln at idx >= 1 is pushed to outLines
PslPushes(ln, idx, cutFrom, keptToolUseIds) ==
  IF IsMsg(ln) THEN JsGE(idx, cutFrom) ELSE ShouldKeep(ln, keptToolUseIds)

\* mutant: the first line pushed after the others
PslSrc_HeadLast(ls, keepN) ==
  LET cutFrom == CutFrom(ls, keepN)
      ids == PslKeptToolUseIds(ls, keepN)
      processedLines == ProcessedLines(ls)
  IN  Ascending({idx \in Indexes(processedLines) :
        idx # 0 /\ PslPushes(processedLines[idx + 1], idx, cutFrom, ids)})
      \o (IF Len(ls) > 0 THEN <<0>> ELSE <<>>)

\* the input index of every line of outLines, in output order
PslSrc(ls, keepN) ==
  LET cutFrom == CutFrom(ls, keepN)
      ids == PslKeptToolUseIds(ls, keepN)
      processedLines == ProcessedLines(ls)
  IN  Ascending({idx \in Indexes(processedLines) :
        idx = 0 \/ PslPushes(processedLines[idx + 1], idx, cutFrom, ids)})

\* mutant: the first line taken from the rewritten lines
pruneSessionLines_HeadRewritten(ls, keepN) ==
  LET cutFrom == CutFrom(ls, keepN)
      processedLines == ProcessedLines(ls)
      from == PslSrc(ls, keepN)
  IN  [outLines |-> [k \in 1..Len(from) |-> processedLines[from[k] + 1]],
       kept |-> Cardinality({idx \in Indexes(processedLines) :
                  idx # 0 /\ IsMsg(processedLines[idx + 1]) /\ JsGE(idx, cutFrom)}),
       dropped |-> Cardinality({idx \in Indexes(processedLines) :
                  idx # 0 /\ IsMsg(processedLines[idx + 1]) /\ ~JsGE(idx, cutFrom)}),
       assistantCount |-> Len(AssistantIndexes(ls))]

pruneSessionLines(ls, keepN) ==
  LET cutFrom == CutFrom(ls, keepN)
      processedLines == ProcessedLines(ls)
      from == PslSrc(ls, keepN)
  IN  [outLines |-> [k \in 1..Len(from) |->
                       IF from[k] = 0 THEN ls[1] ELSE processedLines[from[k] + 1]],
       kept |-> Cardinality({idx \in Indexes(processedLines) :
                  idx # 0 /\ IsMsg(processedLines[idx + 1]) /\ JsGE(idx, cutFrom)}),
       dropped |-> Cardinality({idx \in Indexes(processedLines) :
                  idx # 0 /\ IsMsg(processedLines[idx + 1]) /\ ~JsGE(idx, cutFrom)}),
       assistantCount |-> Len(AssistantIndexes(ls))]

(* -------------------------- pruneToBoundary -------------------------- *)

\* mutant: the assistant record on the boundary line left out
PtbKeptToolUseIds_After(ls, boundaryLineNumber) ==
  ToolUseIdsOf(ls, {idx \in Indexes(ls) : idx > boundaryLineNumber})

\* First pass: tool_use ids of the assistant records at idx >= boundaryLineNumber
PtbKeptToolUseIds(ls, boundaryLineNumber) ==
  ToolUseIdsOf(ls, {idx \in Indexes(ls) : idx >= boundaryLineNumber})

\* mutant: the boundary line itself excluded
PtbPushes_AfterBoundary(ln, idx, boundaryLineNumber, keptToolUseIds) ==
  idx > boundaryLineNumber
  /\ (IF IsMsg(ln) THEN TRUE ELSE ShouldKeep(ln, keptToolUseIds))

\* mutant: non-message lines kept wherever they lie, as in pruneSessionLines
PtbPushes_KeepNonMsg(ln, idx, boundaryLineNumber, keptToolUseIds) ==
  IF IsMsg(ln) THEN idx >= boundaryLineNumber ELSE ShouldKeep(ln, keptToolUseIds)

\* whether processed line ln at idx >= 1 is pushed to outLines
PtbPushes(ln, idx, boundaryLineNumber, keptToolUseIds) ==
  idx >= boundaryLineNumber
  /\ (IF IsMsg(ln) THEN TRUE ELSE ShouldKeep(ln, keptToolUseIds))

\* the input index of every line of outLines, in output order
PtbSrc(ls, boundaryLineNumber) ==
  LET ids == PtbKeptToolUseIds(ls, boundaryLineNumber)
      processedLines == ProcessedLines(ls)
  IN  Ascending({idx \in Indexes(processedLines) :
        idx = 0 \/ PtbPushes(processedLines[idx + 1], idx, boundaryLineNumber, ids)})

\* mutant: dropped counts every line before the boundary
pruneToBoundary_DroppedLines(ls, boundaryLineNumber) ==
  LET processedLines == ProcessedLines(ls)
      from == PtbSrc(ls, boundaryLineNumber)
  IN  [outLines |-> [k \in 1..Len(from) |->
                       IF from[k] = 0 THEN ls[1] ELSE processedLines[from[k] + 1]],
       kept |-> Cardinality({idx \in Indexes(processedLines) :
                  idx # 0 /\ idx >= boundaryLineNumber /\ IsMsg(processedLines[idx + 1])}),
       dropped |-> Cardinality({idx \in Indexes(processedLines) :
                  idx # 0 /\ idx < boundaryLineNumber})]

\* mutant: the lines pushed as read, without the cache token hack
pruneToBoundary_Unrewritten(ls, boundaryLineNumber) ==
  LET from == PtbSrc(ls, boundaryLineNumber)
  IN  [outLines |-> [k \in 1..Len(from) |-> ls[from[k] + 1]],
       kept |-> Cardinality({idx \in Indexes(ls) :
                  idx # 0 /\ idx >= boundaryLineNumber /\ IsMsg(ls[idx + 1])}),
       dropped |-> Cardinality({idx \in Indexes(ls) :
                  idx # 0 /\ idx < boundaryLineNumber /\ IsMsg(ls[idx + 1])})]

pruneToBoundary(ls, boundaryLineNumber) ==
  LET processedLines == ProcessedLines(ls)
      from == PtbSrc(ls, boundaryLineNumber)
  IN  [outLines |-> [k \in 1..Len(from) |->
                       IF from[k] = 0 THEN ls[1] ELSE processedLines[from[k] + 1]],
       kept |-> Cardinality({idx \in Indexes(processedLines) :
                  idx # 0 /\ idx >= boundaryLineNumber /\ IsMsg(processedLines[idx + 1])}),
       dropped |-> Cardinality({idx \in Indexes(processedLines) :
                  idx # 0 /\ idx < boundaryLineNumber /\ IsMsg(processedLines[idx + 1])})]

(* -------------------------- detectBoundaries ------------------------- *)

\* mutant: the separators counted without regard to an empty list
TotalCharacters_NoGuard(ls) ==
  LET F[n \in 0..Len(ls)] == IF n = 0 THEN 0 ELSE F[n - 1] + ls[n].len
  IN  F[Len(ls)] + (Len(ls) - 1)

\* lines.join('\n').length
TotalCharacters(ls) ==
  LET F[n \in 0..Len(ls)] == IF n = 0 THEN 0 ELSE F[n - 1] + ls[n].len
  IN  IF Len(ls) = 0 THEN 0 ELSE F[Len(ls)] + (Len(ls) - 1)

\* linePositions[index]: currentPosition += line.length + 1 over the lines before
LinePosition(ls, index) ==
  LET F[n \in 0..Len(ls)] == IF n = 0 THEN 0 ELSE F[n - 1] + ls[n].len + 1
  IN  F[index]

\* JavaScript numbers are IEEE 754 binary64: 53 significant bits, every
\* operation rounded to nearest, ties to even.  A number of (0, 128) is held
\* as the integer d1 * 2^40 + d2 * 2^20 + d3 (three digits in base 2^20)
\* scaled by 2^-(53 + z).
RECURSIVE Pow2(_)
Pow2(n) == IF n <= 0 THEN 1 ELSE 2 * Pow2(n - 1)

\* the three-digit integer of q plus one
Increment(q) ==
  IF q.d3 + 1 < Pow2(20) THEN [q EXCEPT !.d3 = q.d3 + 1]
  ELSE IF q.d2 + 1 < Pow2(20) THEN [q EXCEPT !.d3 = 0, !.d2 = q.d2 + 1]
  ELSE [q EXCEPT !.d3 = 0, !.d2 = 0, !.d1 = q.d1 + 1]

\* x / y for integers 0 < x <= y < 2048: the first 53 significant bits of
\* the quotient by long division, rounded on the remainder
DoubleDiv(x, y) ==
  LET z == CHOOSE k \in (0 - 1)..11 :
             x * Pow2(k + 1) >= y /\ x * Pow2(k + 1) < 2 * y
      n1 == x * Pow2(z + 13)
      n2 == (n1 % y) * Pow2(20)
      n3 == (n2 % y) * Pow2(20)
      r == n3 % y
      q == [z |-> z, d1 |-> n1 \div y, d2 |-> n2 \div y, d3 |-> n3 \div y]
  IN  IF 2 * r > y \/ (2 * r = y /\ q.d3 % 2 = 1) THEN Increment(q) ELSE q

\* q * 100: the exact product, its low w bits rounded away to leave 53
DoubleTimes100(q) ==
  LET p3 == 100 * q.d3
      p2 == 100 * q.d2 + (p3 \div Pow2(20))
      p1 == 100 * q.d1 + (p2 \div Pow2(20))
      w == CHOOSE k \in 0..8 : p1 < Pow2(13 + k) /\ p1 >= Pow2(12 + k)
      l3 == p3 % Pow2(20)
      guard == (l3 \div Pow2(w - 1)) % 2
      sticky == (l3 % Pow2(w - 1)) # 0
      lsb == (l3 \div Pow2(w)) % 2
      down == [z |-> q.z, d1 |-> p1, d2 |-> p2 % Pow2(20),
               d3 |-> l3 - (l3 % Pow2(w))]
      up == IF down.d3 + Pow2(w) < Pow2(20)
            THEN [down EXCEPT !.d3 = down.d3 + Pow2(w)]
            ELSE Increment([down EXCEPT !.d3 = Pow2(20) - 1])
  IN  IF guard = 1 /\ (sticky \/ lsb = 1) THEN up ELSE down

\* Math.round(q) for q >= 0: the integer part plus the bit of weight 1/2
MathRound(q) ==
  (q.d1 \div Pow2(13 + q.z)) + ((q.d1 \div Pow2(12 + q.z)) % 2)

\* Math.round(((totalCharacters - charactersFromStart) / totalCharacters) * 100)
RetentionPercentage(totalCharacters, charactersFromStart) ==
  MathRound(DoubleTimes100(DoubleDiv(totalCharacters - charactersFromStart,
                                     totalCharacters)))

\* mutant: the marker looked for in lines that are not JSON only
HasMarker_TextOnly(ln) == ln.marker # "none" /\ ~ln.json

\* line.includes('===INTENT_BOUNDARY===')
HasMarker(ln) == ln.marker # "none"

\* line.match(/===INTENT_BOUNDARY=== ([^|]+)(?:\s*\|\s*(.+))?/): group 1
\* ("" stands for undefined)
MarkerTimestamp(ln) == IF ln.marker \in {"ts", "ts_intent"} THEN "ts" ELSE ""

\* group 2 of the same match
MarkerIntent(ln) == IF ln.marker = "ts_intent" THEN "intent" ELSE ""

\* the pairs <<text, pattern>> of the modelled texts with text.includes(pattern)
Substrings ==
  { <<"2 files changed", "files changed">>,
    <<"1 file changed, 5 insertions(+)", "insertions">>,
    <<"1 file changed, 3 deletions(-)", "deletions">> }

Includes(text, pattern) == <<text, pattern>> \in Substrings

\* mutant: the results of every tool taken for commit results
IsCommitResult_AnyTool(ln) ==
  /\ ln.json
  /\ ln.type = "tool_result"
  /\ ln.content # ""
  /\ \/ Includes(ln.content, "files changed")
     \/ Includes(ln.content, "insertions")
     \/ Includes(ln.content, "deletions")

\* obj.type === 'tool_result' && obj.tool_name === 'bash' && obj.content &&
\* (content.includes('files changed') || ... 'insertions' || ... 'deletions')
IsCommitResult(ln) ==
  /\ ln.json
  /\ ln.type = "tool_result"
  /\ ln.tool_name = "bash"
  /\ ln.content # ""
  /\ \/ Includes(ln.content, "files changed")
     \/ Includes(ln.content, "insertions")
     \/ Includes(ln.content, "deletions")

\* command.match(/git commit -m ["']([^"']+)["']/): group 1, "" when no match
GitCommitMatch(command) ==
  IF command = "git commit -m 'feat: X'" THEN "feat: X"
  ELSE IF command = "git add . && git commit -m \"fix: Y\"" THEN "fix: Y"
  ELSE ""

\* mutant: the search run forward from index 0
CommitMessage_Forward(ls, index) ==
  LET hits == Ascending({i \in Indexes(ls) :
                 /\ i < index
                 /\ ls[i + 1].json
                 /\ ls[i + 1].type = "tool_call"
                 /\ ls[i + 1].tool_name = "bash"
                 /\ GitCommitMatch(ls[i + 1].command) # ""})
  IN  IF hits = <<>> THEN <<"Successful commit">>
      ELSE <<"Git commit: ", GitCommitMatch(ls[hits[1] + 1].command)>>

\* the backward search for the git commit command, from index - 1 down to 0
CommitMessage(ls, index) ==
  LET hits == Ascending({i \in Indexes(ls) :
                 /\ i < index
                 /\ ls[i + 1].json
                 /\ ls[i + 1].type = "tool_call"
                 /\ ls[i + 1].tool_name = "bash"
                 /\ GitCommitMatch(ls[i + 1].command) # ""})
  IN  IF hits = <<>> THEN <<"Successful commit">>
      ELSE <<"Git commit: ", GitCommitMatch(ls[hits[Len(hits)] + 1].command)>>

IntentBoundary(ls, index) ==
  LET total == TotalCharacters(ls)
      charactersFromStart == LinePosition(ls, index)
      ln == ls[index + 1]
  IN  [lineNumber |-> index,
       type |-> "intent",
       description |-> IF MarkerIntent(ln) # "" THEN <<MarkerIntent(ln)>>
                       ELSE <<"Boundary marker">>,
       timestamp |-> MarkerTimestamp(ln),
       retentionPercentage |-> RetentionPercentage(total, charactersFromStart),
       characterCount |-> total - charactersFromStart,
       intent |-> MarkerIntent(ln)]

GitCommitBoundary(ls, index) ==
  LET total == TotalCharacters(ls)
      charactersFromStart == LinePosition(ls, index)
  IN  [lineNumber |-> index,
       type |-> "git_commit",
       description |-> CommitMessage(ls, index),
       timestamp |-> "",
       retentionPercentage |-> RetentionPercentage(total, charactersFromStart),
       characterCount |-> total - charactersFromStart,
       intent |-> ""]

\* mutant: the boundaries left in the order they were pushed
SortByLineDesc_Unsorted(bs) == bs

\* boundaries.sort((a, b) => b.lineNumber - a.lineNumber): a stable sort,
\* computed by insertion
RECURSIVE SortByLineDesc(_)
SortByLineDesc(bs) ==
  IF bs = <<>> THEN <<>>
  ELSE LET sorted == SortByLineDesc(SubSeq(bs, 1, Len(bs) - 1))
           b == bs[Len(bs)]
           \* b goes after every element that does not sort after it
           n == Cardinality({k \in 1..Len(sorted) :
                               sorted[k].lineNumber >= b.lineNumber})
       IN  SubSeq(sorted, 1, n) \o <<b>> \o SubSeq(sorted, n + 1, Len(sorted))

detectBoundaries(ls) ==
  LET intentAt == Ascending({i \in Indexes(ls) : HasMarker(ls[i + 1])})
      commitAt == Ascending({i \in Indexes(ls) : IsCommitResult(ls[i + 1])})
      pushed == [k \in 1..Len(intentAt) |-> IntentBoundary(ls, intentAt[k])]
                \o [k \in 1..Len(commitAt) |-> GitCommitBoundary(ls, commitAt[k])]
  IN  [boundaries |-> SortByLineDesc(pushed),
       totalCharacters |-> TotalCharacters(ls)]

(* --------------------------- state machine --------------------------- *)

NoResult == [outLines |-> <<>>, kept |-> 0, dropped |-> 0]

NoAnalysis == [boundaries |-> <<>>, totalCharacters |-> 0]

\* no CLI process has been started
NoCli == [step |-> "idle"]

MaxProcs == 3

\* the dispatcher processes started for hook events of one project
Procs == 1..MaxProcs

\* .git/CLAUDE_HOOK_LOCK does not exist
NoLock == [exists |-> FALSE, pid |-> 0]

\* no hook dispatcher process has been started; removed counts the unlinks
\* that deleted the lock of another process still holding it
NoHook == [lock |-> NoLock, at |-> [p \in Procs |-> "idle"], removed |-> 0]

Init ==
  /\ lines \in SeqsUpTo(PruneLines, MaxLen)
  /\ pc = "input"
  /\ op = "none"
  /\ arg = 0
  /\ res = NoResult
  /\ src = <<>>
  /\ analysis = NoAnalysis
  /\ rewrites = <<>>
  /\ res2 = NoResult
  /\ cli = NoCli
  /\ hook = NoHook

\* a call of pruneSessionLines(lines, keepN)
PruneSessionLinesStep ==
  /\ pc = "input"
  /\ \E keepN \in (0 - 1)..MaxKeep :
       /\ res' = pruneSessionLines(lines, keepN)
       /\ src' = PslSrc(lines, keepN)
       /\ arg' = keepN
  /\ op' = "pruneSessionLines"
  /\ pc' = "done"
  /\ UNCHANGED <<lines, analysis, rewrites, res2, cli, hook>>

\* a call of pruneToBoundary(lines, b) with an arbitrary line number
PruneToBoundaryStep ==
  /\ pc = "input"
  /\ \E b \in (0 - 1)..(MaxLen + 1) :
       /\ res' = pruneToBoundary(lines, b)
       /\ src' = PtbSrc(lines, b)
       /\ arg' = b
  /\ op' = "pruneToBoundary"
  /\ pc' = "done"
  /\ UNCHANGED <<lines, analysis, rewrites, res2, cli, hook>>

\* a call of detectBoundaries(lines)
DetectBoundariesStep ==
  /\ pc = "input"
  /\ analysis' = detectBoundaries(lines)
  /\ op' = "detectBoundaries"
  /\ pc' = "analyzed"
  /\ UNCHANGED <<lines, arg, res, src, rewrites, res2, cli, hook>>

\* boundaryPrune: pruneToBoundary(lines, selectedBoundary.lineNumber) for a
\* boundary selected from the list detectBoundaries returned
PruneSelectedBoundaryStep ==
  /\ pc = "analyzed"
  /\ \E k \in 1..Len(analysis.boundaries) :
       LET b == analysis.boundaries[k].lineNumber
       IN  /\ res' = pruneToBoundary(lines, b)
           /\ src' = PtbSrc(lines, b)
           /\ arg' = b
  /\ op' = "boundaryPrune"
  /\ pc' = "done"
  /\ UNCHANGED <<lines, analysis, rewrites, res2, cli, hook>>

Next ==
  \/ PruneSessionLinesStep
  \/ PruneToBoundaryStep
  \/ DetectBoundariesStep
  \/ PruneSelectedBoundaryStep

Spec == Init /\ [][Next]_vars

\* the cache token hack on its own: lines.map(...) applied to the line list,
\* then to its own result (what a later run of either pruning function does)
RewriteStep ==
  /\ pc \in {"input", "rewritten"}
  /\ Len(rewrites) < MaxRewrites
  /\ rewrites' = Append(rewrites,
        ProcessedLines(IF rewrites = <<>> THEN lines ELSE rewrites[Len(rewrites)]))
  /\ op' = "rewrite"
  /\ pc' = "rewritten"
  /\ UNCHANGED <<lines, arg, res, src, analysis, res2, cli, hook>>

\* a second run of the program with the same keepN, on the lines the first
\* run wrote
RerunStep ==
  /\ pc = "done"
  /\ op = "pruneSessionLines"
  /\ res2' = pruneSessionLines(res.outLines, arg)
  /\ pc' = "rerun"
  /\ UNCHANGED <<lines, op, arg, res, src, analysis, rewrites, cli, hook>>

NextRerun ==
  \/ RewriteStep
  \/ PruneSessionLinesStep
  \/ RerunStep

NextModes ==
  \/ PruneSessionLinesStep
  \/ PruneToBoundaryStep

\* the two pruning functions called directly, with any mode parameter
SpecModes == Init /\ [][NextModes]_vars

InitUsage ==
  /\ lines \in SeqsUpTo(UsageLines, MaxULen)
  /\ pc = "input"
  /\ op = "none"
  /\ arg = 0
  /\ res = NoResult
  /\ src = <<>>
  /\ analysis = NoAnalysis
  /\ rewrites = <<>>
  /\ res2 = NoResult
  /\ cli = NoCli
  /\ hook = NoHook

\* the two pruning functions on transcripts of records with usage counters
SpecUsage == InitUsage /\ [][NextModes]_vars

InitBoundaries ==
  /\ lines \in SeqsUpTo(BoundaryLines, MaxBLen)
  /\ pc = "input"
  /\ op = "none"
  /\ arg = 0
  /\ res = NoResult
  /\ src = <<>>
  /\ analysis = NoAnalysis
  /\ rewrites = <<>>
  /\ res2 = NoResult
  /\ cli = NoCli
  /\ hook = NoHook

NextBoundaries ==
  \/ DetectBoundariesStep
  \/ PruneSelectedBoundaryStep

\* boundaryPrune on transcripts of markers, commands and command results
SpecBoundaries == InitBoundaries /\ [][NextBoundaries]_vars

\* repeated application: the rewrite twice, keep-by-assistant-count twice
SpecRerun == Init /\ [][NextRerun]_vars

(* ------------------------ vocabulary of the claims ------------------- *)

Out == res.outLines

\* the input indexes the output lines come from
SrcSet == {src[k] : k \in 1..Len(src)}

ByCount == pc = "done" /\ op = "pruneSessionLines"

ByBoundary == pc = "done" /\ op \in {"pruneToBoundary", "boundaryPrune"}

Pruned == ByCount \/ ByBoundary

\* a record whose type is user, assistant or system
MessageRecord(ln) == ln.json /\ ln.type \in {"user", "assistant", "system"}

AssistantRecord(ln) == ln.json /\ ln.type = "assistant"

ToolResultRecord(ln) == ln.json /\ ln.type = "tool_result"

\* the indexes >= 1 of the message records / assistant records of the input
MessagesAfterHead == {i \in 1..(Len(lines) - 1) : MessageRecord(lines[i + 1])}

AssistantsAfterHead == {i \in 1..(Len(lines) - 1) : AssistantRecord(lines[i + 1])}

\* the output positions >= 1 (0-based) that hold message records
OutMessages == {k \in 2..Len(Out) : MessageRecord(Out[k])}

\* a positive cache_read_input_tokens under usage or under message.usage
PositiveCounter(u) == u # <<>> /\ u[1] > 0

CacheBearingRecord(ln) ==
  ln.json /\ (PositiveCounter(ln.usage) \/ PositiveCounter(ln.musage))

(* ------------------------------- claims ------------------------------ *)

\* C1: for a non-empty line list and any keepN or boundary line number, the
\* first line of the output of either pruning operation is the first input
\* line, byte for byte.
C1_HeadPreserved ==
  (Pruned /\ Len(lines) > 0) => (Len(Out) > 0 /\ Out[1] = lines[1])

\* the head is itself the last cache-bearing record, and re-serialising it
\* would change its text
C1_Witness ==
  /\ ByCount
  /\ Len(lines) > 1
  /\ LastNonZeroCacheLineIndex(lines) = 0
  /\ ZeroCache(lines[1]) # lines[1]
  /\ Len(Out) > 1

C3_Original ==
  (pc = "done" /\ op = "boundaryPrune") =>
    (Len(src) >= 2 /\ src[2] = arg)

\* the boundary line is a tool_result record whose tool_use_id no assistant
\* record at or after the boundary provides
OrphanAt(b) ==
  /\ ToolResultRecord(lines[b + 1])
  /\ lines[b + 1].tool_use_id # ""
  /\ \A i \in b..(Len(lines) - 1) :
       i >= 1 /\ AssistantRecord(lines[i + 1])
         => lines[b + 1].tool_use_id \notin lines[i + 1].uses

\* C3 amended: the boundary's line is in the output and is the first
\* surviving line after the head, provided the boundary is not at line 0
\* (where the line is the head itself) and its line is not an orphaned
\* tool_result; an orphaned boundary line is dropped.
C3_BoundaryLineKept ==
  (pc = "done" /\ op = "boundaryPrune") =>
    /\ arg = 0 => src[1] = 0
    /\ (arg >= 1 /\ ~OrphanAt(arg)) => (Len(src) >= 2 /\ src[2] = arg)
    /\ (arg >= 1 /\ OrphanAt(arg)) => arg \notin SrcSet

\* a boundary after the head was selected, lines precede it, and its line
\* is the first line after the head in the output
C3_Witness ==
  /\ pc = "done" /\ op = "boundaryPrune"
  /\ arg >= 2
  /\ Len(src) >= 3
  /\ src[2] = arg

\* the output lines that differ from the input line they come from
Rewritten == {k \in 1..Len(Out) : Out[k] # lines[src[k] + 1]}

\* the indexes of the cache-bearing records of the input
CacheBearingIndexes == {i \in 0..(Len(lines) - 1) : CacheBearingRecord(lines[i + 1])}

\* C4: at most one output line differs from the input line it comes from; if
\* one does, it comes from the greatest-index cache-bearing record of the
\* input and holds no positive counter any more, and every earlier
\* cache-bearing record that survives is unchanged.
C4_Original ==
  Pruned =>
    /\ Cardinality(Rewritten) <= 1
    /\ \A k \in Rewritten :
         /\ src[k] \in CacheBearingIndexes
         /\ \A i \in CacheBearingIndexes : i <= src[k]
         /\ ~CacheBearingRecord(Out[k])
    /\ \A k \in 1..Len(Out) :
         (\E i \in CacheBearingIndexes : src[k] < i) => Out[k] = lines[src[k] + 1]

\* C5: kept is the number of message records of the output after the head,
\* dropped the number of message records of the input after the head that
\* are absent from the output, so the output holds the input's message
\* records less the dropped ones.
C5_CountersPartition ==
  Pruned =>
    /\ res.kept = Cardinality(OutMessages)
    /\ res.dropped = Cardinality(MessagesAfterHead \ SrcSet)
    /\ Cardinality(OutMessages) = Cardinality(MessagesAfterHead) - res.dropped

\* messages and non-message lines lie on both sides of a boundary
C5_Witness ==
  /\ ByBoundary
  /\ res.kept >= 1
  /\ res.dropped >= 1
  /\ \E i \in 1..(arg - 1) : i < Len(lines) /\ ~MessageRecord(lines[i + 1])

\* C6: with keepN >= A nothing is dropped: dropped is 0, kept is the number
\* of message records after the head, and every message record is in the
\* output, in input order.
C6_KeepAll ==
  (ByCount /\ arg >= Cardinality(AssistantsAfterHead)) =>
    /\ res.dropped = 0
    /\ res.kept = Cardinality(MessagesAfterHead)
    /\ MessagesAfterHead \subseteq SrcSet
    /\ \A k \in 1..(Len(src) - 1) : src[k] < src[k + 1]
    /\ \A k \in 1..Len(Out) :
         MessageRecord(lines[src[k] + 1]) =>
           Out[k] \in {lines[src[k] + 1], ZeroCache(lines[src[k] + 1])}

\* keepN equals the assistant count, and a message record precedes the
\* first assistant record
C6_Witness ==
  /\ ByCount
  /\ arg >= 1
  /\ arg = Cardinality(AssistantsAfterHead)
  /\ \E i \in MessagesAfterHead : \A a \in AssistantsAfterHead : i < a
  /\ res.kept = Cardinality(MessagesAfterHead)

\* the index of the n-th assistant record counted from the end
NthAssistantFromEnd(n) ==
  CHOOSE c \in AssistantsAfterHead :
    Cardinality({a \in AssistantsAfterHead : a >= c}) = n

\* C7: with 1 <= keepN < A the message records of the output after the head
\* are exactly the input message records at or after the keepN-th assistant
\* record from the end, so exactly keepN assistant records survive there.
C7_CutAtNthAssistant ==
  (ByCount /\ arg >= 1 /\ arg < Cardinality(AssistantsAfterHead)) =>
    /\ {src[k] : k \in OutMessages}
         = {i \in MessagesAfterHead : i >= NthAssistantFromEnd(arg)}
    /\ Cardinality({k \in 2..Len(Out) : AssistantRecord(Out[k])}) = arg

\* two of three assistant records are kept and one is dropped
C7_Witness ==
  /\ ByCount
  /\ arg = 2
  /\ Cardinality(AssistantsAfterHead) = 3
  /\ res.dropped = 1
  /\ res.kept = 2

\* C8: with keepN <= 0 and an assistant record after the head, no message
\* record after the head survives: kept is 0, dropped counts them all, and
\* an input of message records only is pruned to its head.
C8_KeepNone ==
  (ByCount /\ arg <= 0 /\ AssistantsAfterHead # {}) =>
    /\ res.kept = 0
    /\ res.dropped = Cardinality(MessagesAfterHead)
    /\ OutMessages = {}
    /\ MessagesAfterHead = 1..(Len(lines) - 1) => Out = <<lines[1]>>

\* a negative keepN on message records only
C8_Witness ==
  /\ ByCount
  /\ arg < 0
  /\ Len(lines) >= 3
  /\ AssistantsAfterHead # {}
  /\ MessagesAfterHead = 1..(Len(lines) - 1)
  /\ Out = <<lines[1]>>

\* the index of the first assistant record after the head
FirstAssistant == CHOOSE f \in AssistantsAfterHead : \A a \in AssistantsAfterHead : f <= a

\* C9 as stated: with keepN = 0 and A > 0 the first assistant record and
\* every message record after it are kept; with A = 0 every message record
\* is kept.
C9_Original ==
  (ByCount /\ arg = 0) =>
    IF AssistantsAfterHead # {}
    THEN {i \in MessagesAfterHead : i >= FirstAssistant} \subseteq SrcSet
    ELSE MessagesAfterHead \subseteq SrcSet

\* C9 amended: with keepN = 0 and A > 0 the cut index is read past the end of
\* the assistant indexes, so no message record after the head is kept, the
\* first assistant record included, and no tool_result that carries a
\* tool_use_id survives after the head; with A = 0 every message record is
\* kept.
C9_ZeroKeepsNoMessage ==
  (ByCount /\ arg = 0) =>
    IF AssistantsAfterHead # {}
    THEN /\ MessagesAfterHead \cap SrcSet = {}
         /\ FirstAssistant \notin SrcSet
         /\ \A k \in 2..Len(Out) :
              ToolResultRecord(Out[k]) => Out[k].tool_use_id = ""
    ELSE /\ MessagesAfterHead \subseteq SrcSet
         /\ res.dropped = 0

\* keepN = 0, a message record follows the first assistant record, and
\* both are dropped
C9_Witness ==
  /\ ByCount
  /\ arg = 0
  /\ AssistantsAfterHead # {}
  /\ \E i \in MessagesAfterHead : i > FirstAssistant
  /\ res.kept = 0
  /\ res.dropped >= 2

\* C10: pruneToBoundary with cut index b keeps no line of index 1..b-1, counts
\* each message record among them once in dropped, and with b past the last
\* index returns the head alone, kept 0 and every message record dropped.
C10_NothingBeforeBoundary ==
  ByBoundary =>
    /\ \A i \in 1..(arg - 1) : i \notin SrcSet
    /\ res.dropped = Cardinality({i \in MessagesAfterHead : i < arg})
    /\ (Len(lines) > 0 /\ arg > Len(lines) - 1) =>
         /\ Out = <<lines[1]>>
         /\ res.kept = 0
         /\ res.dropped = Cardinality(MessagesAfterHead)

\* a message record and a non-message line lie before the boundary, and a
\* line survives after it
C10_Witness ==
  /\ ByBoundary
  /\ arg < Len(lines)
  /\ \E i, j \in 1..(arg - 1) :
        MessageRecord(lines[i + 1]) /\ ~MessageRecord(lines[j + 1])
  /\ Len(Out) >= 2

\* pruneSessionLines ran with 1 <= keepN < A, so that the cut index is the
\* index of the keepN-th assistant record from the end
CutByCount == ByCount /\ arg >= 1 /\ arg < Cardinality(AssistantsAfterHead)

\* the tool_use ids of the assistant records at or after index k
IdsFrom(k) == UNION {lines[a + 1].uses : a \in {i \in AssistantsAfterHead : i >= k}}

\* a tool_result record that carries a tool_use_id outside ids
OrphanOf(ln, ids) ==
  ToolResultRecord(ln) /\ ln.tool_use_id # "" /\ ln.tool_use_id \notin ids

\* C11 as stated: with cut index k, no line of index 1..k-1 is in the output
\* of pruneSessionLines whatever its kind, and the message records among them
\* count as dropped.
C11_Original ==
  CutByCount =>
    LET k == NthAssistantFromEnd(arg)
    IN  /\ \A i \in 1..(k - 1) : i \notin SrcSet
        /\ res.dropped = Cardinality({i \in MessagesAfterHead : i < k})

\* C11 amended: with cut index k, the message records at index 1..k-1 are
\* absent from the output and are the ones counted as dropped; a non-message
\* record or non-JSON line at index 1..k-1 stays in the output, except a
\* tool_result record whose tool_use_id no assistant record at index >= k
\* provides.
C11_MessagesBeforeCutDropped ==
  CutByCount =>
    LET k == NthAssistantFromEnd(arg)
    IN  /\ \A i \in 1..(k - 1) :
             IF MessageRecord(lines[i + 1]) THEN i \notin SrcSet
             ELSE i \in SrcSet <=> ~OrphanOf(lines[i + 1], IdsFrom(k))
        /\ res.dropped = Cardinality({i \in MessagesAfterHead : i < k})

\* before the cut lie a message record, which is dropped, and a non-message
\* line, which is kept
C11_Witness ==
  /\ CutByCount
  /\ \E i, j \in 1..(NthAssistantFromEnd(arg) - 1) :
        /\ MessageRecord(lines[i + 1]) /\ i \notin SrcSet
        /\ ~MessageRecord(lines[j + 1]) /\ j \in SrcSet

\* the tool_use ids of the assistant records after the head that
\* pruneSessionLines keeps: all of them with keepN >= A, those from the cut
\* on with 1 <= keepN < A, none with keepN <= 0 < A
IdsByCount ==
  IF arg >= Cardinality(AssistantsAfterHead) THEN IdsFrom(1)
  ELSE IF arg >= 1 THEN IdsFrom(NthAssistantFromEnd(arg))
  ELSE {}

\* the non-message lines of the input after the head
NonMessagesAfterHead == (1..(Len(lines) - 1)) \ MessagesAfterHead

C13_Original ==
  (ByBoundary /\ arg <= 1) =>
    /\ SrcSet = 0..(Len(lines) - 1)
    /\ \A k \in 1..(Len(src) - 1) : src[k] < src[k + 1]
    /\ res.dropped = 0
    /\ res = pruneToBoundary(lines, 1)

\* C13 amended: pruneToBoundary with b <= 1 drops no message record (dropped
\* is 0, kept counts every message record after the head) and keeps every
\* line in order, except the tool_result records whose tool_use_id no
\* assistant record after the head provides; the result for b <= 0 is the
\* result for b = 1.
C13_NothingDroppedButOrphans ==
  (ByBoundary /\ arg <= 1) =>
    /\ \A i \in 1..(Len(lines) - 1) :
         i \in SrcSet <=> ~OrphanOf(lines[i + 1], IdsFrom(1))
    /\ Len(lines) > 0 => 0 \in SrcSet
    /\ \A k \in 1..(Len(src) - 1) : src[k] < src[k + 1]
    /\ res.dropped = 0
    /\ res.kept = Cardinality(MessagesAfterHead)
    /\ res = pruneToBoundary(lines, 1)

\* a boundary line number below 1, with a message record, an assistant
\* record at index 1 and its tool_result after the head, all kept
C13_Witness ==
  /\ ByBoundary
  /\ arg <= 0
  /\ Len(lines) >= 3
  /\ AssistantRecord(lines[2])
  /\ \E i \in 2..(Len(lines) - 1) :
        ToolResultRecord(lines[i + 1]) /\ lines[i + 1].tool_use_id # ""
  /\ SrcSet = 0..(Len(lines) - 1)

\* the counter as the rewrite locates it (under usage when the record has a
\* usage object, else under message.usage) is positive
SeenCacheBearing(ln) ==
  ln.json /\ (IF ln.usage # <<>> THEN ln.usage[1] > 0 ELSE PositiveCounter(ln.musage))

SeenCacheBearingIndexes(ls) == {i \in 0..(Len(ls) - 1) : SeenCacheBearing(ls[i + 1])}

\* the line list before the rewrite followed by the successive rewrites
RewriteChain == <<lines>> \o rewrites

\* C14 as stated: rewriting the already-rewritten list leaves every record's
\* cache_read_input_tokens as it was after the first rewrite.
C14_Original ==
  Len(rewrites) >= 2 =>
    \A k \in 1..Len(lines) :
      /\ rewrites[2][k].usage = rewrites[1][k].usage
      /\ rewrites[2][k].musage = rewrites[1][k].musage

\* C14 amended: each application of the rewrite zeroes the counter of the
\* last record whose counter it still sees positive and changes no other
\* line, so the second application zeroes a second record whenever the
\* input holds two such records; the rewrite of the rewritten list changes
\* nothing exactly when the input held at most one.
C14_ZeroesOnePerRewrite ==
  /\ \A n \in 1..Len(rewrites) :
       LET before == RewriteChain[n]
           after == RewriteChain[n + 1]
           seen == SeenCacheBearingIndexes(before)
       IN  /\ Len(after) = Len(before)
           /\ \A i \in 0..(Len(before) - 1) :
                IF i \in seen /\ \A j \in seen : j <= i
                THEN /\ ~SeenCacheBearing(after[i + 1])
                     /\ after[i + 1] # before[i + 1]
                ELSE after[i + 1] = before[i + 1]
  /\ Len(rewrites) >= 2 =>
       (rewrites[2] = rewrites[1] <=> Cardinality(SeenCacheBearingIndexes(lines)) <= 1)

\* the rewrite was applied twice to a list with one cache-bearing record:
\* the first application changed it, the second changed nothing
C14_Witness ==
  /\ Len(rewrites) >= 2
  /\ rewrites[1] # lines
  /\ rewrites[2] = rewrites[1]

\* the assistant records after the head of the first run's output
OutAssistants == {k \in 2..Len(Out) : AssistantRecord(Out[k])}

Rerun == pc = "rerun"

\* C15 as stated: a second pruneSessionLines run with the same keepN on the
\* first run's output returns the first run's output, provided keepN is at
\* least the assistant count of the first output.
C15_Original ==
  (Rerun /\ arg >= Cardinality(OutAssistants)) => res2.outLines = Out

\* C15 amended: provided keepN is at least the assistant count of the first
\* output, the second run keeps and drops the same lines (dropped 0), and
\* its output equals the first run's output exactly when no record after the
\* head of the first output still holds a positive counter; otherwise the
\* second run zeroes the last such record.
C15_RerunUpToCounters ==
  (Rerun /\ arg >= Cardinality(OutAssistants)) =>
    /\ Len(res2.outLines) = Len(Out)
    /\ res2.dropped = 0
    /\ res2.kept = Cardinality(OutMessages)
    /\ res2.outLines = Out <=> SeenCacheBearingIndexes(Out) \subseteq {0}
    /\ \A k \in 1..Len(Out) :
         res2.outLines[k] \in {Out[k], ZeroCache(Out[k])}

\* the first run cut message records and left no positive counter after the
\* head, and the second run returned the same lines
C15_Witness ==
  /\ Rerun
  /\ arg >= 1
  /\ arg >= Cardinality(OutAssistants)
  /\ res.dropped >= 1
  /\ Len(Out) >= 3
  /\ res2.outLines = Out

\* detectBoundaries has returned
Analyzed == op \in {"detectBoundaries", "boundaryPrune"}

Boundaries == analysis.boundaries

\* the line text contains ===INTENT_BOUNDARY===, as bare text or inside a
\* string of a JSON record
ContainsMarker(ln) == ln.marker \in {"bare", "ts", "ts_intent"}

\* the line parses as a tool_result record for the bash tool whose content
\* contains 'files changed', 'insertions' or 'deletions'
SuccessfulCommitResult(ln) ==
  /\ ToolResultRecord(ln)
  /\ ln.tool_name = "bash"
  /\ ln.content \in {"2 files changed", "1 file changed, 5 insertions(+)",
                     "1 file changed, 3 deletions(-)"}

\* C16 as stated: the boundaries detectBoundaries returns are in strictly
\* descending lineNumber order, so no two of them share a line.
C16_Original ==
  Analyzed =>
    \A k \in 1..(Len(Boundaries) - 1) :
      Boundaries[k].lineNumber > Boundaries[k + 1].lineNumber

\* C16 amended: the boundaries are in descending lineNumber order, not
\* strictly: a line that contains the marker and is a successful bash commit
\* result gives an intent boundary and a git_commit boundary with the same
\* lineNumber, and no other two boundaries share a line.
C16_DescendingWithTies ==
  Analyzed =>
    /\ \A k \in 1..(Len(Boundaries) - 1) :
         Boundaries[k].lineNumber >= Boundaries[k + 1].lineNumber
    /\ \A j, k \in 1..Len(Boundaries) :
         (j # k /\ Boundaries[j].lineNumber = Boundaries[k].lineNumber) =>
           /\ Boundaries[j].type # Boundaries[k].type
           /\ ContainsMarker(lines[Boundaries[j].lineNumber + 1])
           /\ SuccessfulCommitResult(lines[Boundaries[j].lineNumber + 1])

\* three boundaries on two lines: the later line carries both a marker and a
\* commit result, and its boundaries come before the earlier line's
C16_Witness ==
  /\ Analyzed
  /\ Len(Boundaries) = 3
  /\ Boundaries[1].lineNumber = Boundaries[2].lineNumber
  /\ Boundaries[2].lineNumber > Boundaries[3].lineNumber
  /\ Boundaries[3].type = "intent"

\* sum of the line lengths plus one separator between consecutive lines
ByteTotal ==
  LET F[n \in 0..Len(lines)] ==
        IF n = 0 THEN 0 ELSE F[n - 1] + lines[n].len + (IF n > 1 THEN 1 ELSE 0)
  IN  F[Len(lines)]

\* sum over the lines before index i of (length + 1)
Offset(i) ==
  LET F[n \in 0..Len(lines)] == IF n = 0 THEN 0 ELSE F[n - 1] + lines[n].len + 1
  IN  F[i]

\* round(100 * part / whole), halves rounded up
RoundedPercent(part, whole) == (200 * part + whole) \div (2 * whole)

\* C17: every boundary has characterCount = total - offset of its line,
\* retentionPercentage = round(100 * (total - offset) / total) within 0..100,
\* and totalCharacters is total.
C17_Original ==
  Analyzed =>
    /\ analysis.totalCharacters = ByteTotal
    /\ \A k \in 1..Len(Boundaries) :
         LET b == Boundaries[k]
             part == ByteTotal - Offset(b.lineNumber)
         IN  /\ b.characterCount = part
             /\ b.retentionPercentage = RoundedPercent(part, ByteTotal)
             /\ b.retentionPercentage \in 0..100

\* the intent boundaries / git_commit boundaries at line i
IntentAt(i) ==
  {k \in 1..Len(Boundaries) :
     Boundaries[k].lineNumber = i /\ Boundaries[k].type = "intent"}

CommitAt(i) ==
  {k \in 1..Len(Boundaries) :
     Boundaries[k].lineNumber = i /\ Boundaries[k].type = "git_commit"}

\* C18: exactly one intent boundary for each line that contains the marker,
\* bare text or JSON record alike, and none for any other line.
C18_OneIntentPerMarkerLine ==
  Analyzed =>
    /\ \A i \in 0..(Len(lines) - 1) :
         Cardinality(IntentAt(i)) = IF ContainsMarker(lines[i + 1]) THEN 1 ELSE 0
    /\ \A k \in 1..Len(Boundaries) : Boundaries[k].lineNumber \in 0..(Len(lines) - 1)

\* a JSON record that embeds the marker and a line without marker: one
\* intent boundary, on the record
C18_Witness ==
  /\ Analyzed
  /\ Len(lines) >= 2
  /\ \E i, j \in 0..(Len(lines) - 1) :
        /\ lines[i + 1].json /\ ContainsMarker(lines[i + 1])
        /\ ~ContainsMarker(lines[j + 1])
        /\ IntentAt(i) # {}
        /\ IntentAt(j) = {}

\* C19: a git_commit boundary at a line if and only if the line is a bash
\* tool_result record whose content contains a success substring; a bash
\* tool_result without one gives none, even after a git commit tool_call.
C19_CommitIffSuccessfulResult ==
  Analyzed =>
    \A i \in 0..(Len(lines) - 1) :
      Cardinality(CommitAt(i)) = IF SuccessfulCommitResult(lines[i + 1]) THEN 1 ELSE 0

\* a git commit tool_call followed by a failed bash result, which gives no
\* boundary, and by a successful one, which gives the only git_commit
\* boundary
C19_Witness ==
  /\ Analyzed
  /\ Len(lines) = 3
  /\ lines[1].type = "tool_call" /\ lines[1].command = "git commit -m 'feat: X'"
  /\ lines[2].type = "tool_result" /\ lines[2].tool_name = "bash"
  /\ lines[2].content = "error: nothing to commit"
  /\ CommitAt(1) = {}
  /\ CommitAt(2) # {}
  /\ Boundaries[1].description = <<"Git commit: ", "feat: X">>

\* C20: every core operation returns a well-formed result on degenerate
\* input: on the empty list detectBoundaries returns no boundary and
\* totalCharacters 0 and the pruning operations an empty output with all
\* counters 0; on a list without message records after the head they return
\* the head followed by lines of the input, with kept and dropped 0.
C20_TotalOnDegenerateInput ==
  /\ (lines = <<>> /\ Analyzed) =>
       analysis = [boundaries |-> <<>>, totalCharacters |-> 0]
  /\ (lines = <<>> /\ ByCount) =>
       res = [outLines |-> <<>>, kept |-> 0, dropped |-> 0, assistantCount |-> 0]
  /\ (lines = <<>> /\ ByBoundary) =>
       res = [outLines |-> <<>>, kept |-> 0, dropped |-> 0]
  /\ (lines # <<>> /\ MessagesAfterHead = {} /\ Pruned) =>
       /\ res.kept = 0
       /\ res.dropped = 0
       /\ Len(Out) \in 1..Len(lines)
       /\ Out[1] = lines[1]
       /\ \A k \in 1..Len(Out) :
            Out[k] \in {lines[src[k] + 1], ZeroCache(lines[src[k] + 1])}
  /\ (MessagesAfterHead = {} /\ Analyzed) =>
       /\ analysis.totalCharacters >= 0
       /\ Len(Boundaries) <= 2 * Len(lines)
       /\ \A k \in 1..Len(Boundaries) :
            /\ Boundaries[k].lineNumber \in 0..(Len(lines) - 1)
            /\ Boundaries[k].retentionPercentage \in 0..100

\* detectBoundaries has run on the empty list
C20_Witness ==
  /\ lines = <<>>
  /\ pc = "analyzed"
  /\ op = "detectBoundaries"
  /\ analysis.totalCharacters = 0

\* the cut index of the run: the first index after the head whose message
\* records survive (past the last index when none does)
Cut ==
  IF ByBoundary THEN Max(arg, 1)
  ELSE IF Max(arg, 0) >= Cardinality(AssistantsAfterHead) THEN 1
  ELSE IF arg >= 1 THEN NthAssistantFromEnd(arg)
  ELSE Len(lines)

\* the tool_result records at or after the cut that carry a tool_use_id
ResultsFromCut ==
  {i \in Cut..(Len(lines) - 1) :
     ToolResultRecord(lines[i + 1]) /\ lines[i + 1].tool_use_id # ""}

\* C24: in both pruning operations a tool_result record at or after the cut
\* that carries a tool_use_id is kept if and only if the id is a tool_use id
\* of an assistant record at or after the cut, and kept and dropped count
\* message records only, whatever tool_result is dropped.
C24_ResultKeptIffReferenced ==
  Pruned =>
    /\ \A i \in ResultsFromCut :
         i \in SrcSet <=> lines[i + 1].tool_use_id \in IdsFrom(Cut)
    /\ res.kept = Cardinality({i \in MessagesAfterHead : i >= Cut})
    /\ res.dropped = Cardinality({i \in MessagesAfterHead : i < Cut})

\* the cut lies after an assistant record; a tool_result after the cut
\* refers to it and is dropped, while a message record is kept
C24_Witness ==
  /\ Pruned
  /\ Cut >= 2
  /\ \E i \in ResultsFromCut :
        /\ i \notin SrcSet
        /\ \E a \in AssistantsAfterHead :
              a < Cut /\ lines[i + 1].tool_use_id \in lines[a + 1].uses
  /\ res.kept >= 1

\* C25: the rewrite zeroes the greatest-index record that holds a positive
\* counter under usage or under message.usage, whatever the combination of
\* the two locations, and changes no other line; without such a record the
\* rewritten lines equal the input lines.
C25_Original ==
  Len(rewrites) >= 1 =>
    /\ Len(rewrites[1]) = Len(lines)
    /\ \A i \in 0..(Len(lines) - 1) :
         IF i \in CacheBearingIndexes /\ \A j \in CacheBearingIndexes : j <= i
         THEN ~CacheBearingRecord(rewrites[1][i + 1])
         ELSE rewrites[1][i + 1] = lines[i + 1]

\* the last cache-bearing record of the input is dropped by the cut
LastCacheBearingDropped ==
  /\ CacheBearingIndexes # {}
  /\ \E i \in CacheBearingIndexes :
        /\ \A j \in CacheBearingIndexes : j <= i
        /\ i \notin SrcSet

\* C26: when the last cache-bearing record of the input is dropped by the
\* cut, no output line is a zeroed record: every output line is the input
\* line it comes from, and every surviving cache-bearing record keeps its
\* positive counter.
C26_Original ==
  (Pruned /\ LastCacheBearingDropped) =>
    /\ Rewritten = {}
    /\ \A k \in 1..Len(Out) :
         CacheBearingRecord(lines[src[k] + 1]) => CacheBearingRecord(Out[k])

\* C27: the output of either pruning operation is an order-preserving
\* subsequence of the input: every output line is the input line of a
\* distinct index, or the zeroed record standing in for it, the indexes
\* increase along the output, and at most one output line is a stand-in.
C27_Subsequence ==
  Pruned =>
    /\ Len(src) = Len(Out)
    /\ Len(Out) <= Len(lines)
    /\ \A k \in 1..Len(Out) :
         /\ src[k] \in 0..(Len(lines) - 1)
         /\ Out[k] \in {lines[src[k] + 1], ZeroCache(lines[src[k] + 1])}
    /\ \A j, k \in 1..Len(Out) : j < k => src[j] < src[k]
    /\ Cardinality(Rewritten) <= 1

\* lines of the middle of the input are dropped, lines on both sides of them
\* are kept, and one kept line is the zeroed record
C27_Witness ==
  /\ Pruned
  /\ Len(Out) >= 3
  /\ \E k \in 1..(Len(src) - 1) : src[k + 1] > src[k] + 1
  /\ Cardinality(Rewritten) = 1

\* the output of the run without the lines that come from the input indexes
\* 1..c-1
OutFrom(c) ==
  LET positions == Ascending({k \in 1..Len(Out) : src[k] = 0 \/ src[k] >= c})
  IN  [n \in 1..Len(positions) |-> Out[positions[n]]]

\* C30: for 1 <= keepN < A and c the index of the keepN-th assistant record
\* from the end, pruneToBoundary(lines, c) returns the kept and dropped
\* counters of pruneSessionLines(lines, keepN), and its output is the
\* pruneSessionLines output without the lines of the input indexes 1..c-1.
C30_ModesAgreeFromCut ==
  CutByCount =>
    LET c == NthAssistantFromEnd(arg)
        byBoundary == pruneToBoundary(lines, c)
    IN  /\ byBoundary.kept = res.kept
        /\ byBoundary.dropped = res.dropped
        /\ byBoundary.outLines = OutFrom(c)

\* pruneSessionLines kept a line from before the cut, which pruneToBoundary
\* excludes, and a line after the cut is the zeroed record
C30_Witness ==
  /\ CutByCount
  /\ \E k \in 1..Len(src) : src[k] \in 1..(NthAssistantFromEnd(arg) - 1)
  /\ \E k \in Rewritten : src[k] >= NthAssistantFromEnd(arg)

\* the quoted message of a git commit -m command, "" for any other command
QuotedMessage(command) ==
  CASE command = "git commit -m 'feat: X'" -> "feat: X"
    [] command = "git add . && git commit -m \"fix: Y\"" -> "fix: Y"
    [] OTHER -> ""

\* the indexes before i of the bash tool_call records that run git commit -m
\* with a quoted message
CommitCallsBefore(i) ==
  {j \in 0..(i - 1) :
     /\ lines[j + 1].json
     /\ lines[j + 1].type = "tool_call"
     /\ lines[j + 1].tool_name = "bash"
     /\ QuotedMessage(lines[j + 1].command) # ""}

\* C28: the description of a git_commit boundary at line i is 'Git commit: '
\* followed by the message of the nearest git commit tool_call before i,
\* other lines in between being skipped, and 'Successful commit' when no
\* such tool_call precedes i.
C28_NearestCommitMessage ==
  Analyzed =>
    \A k \in 1..Len(Boundaries) :
      Boundaries[k].type = "git_commit" =>
        LET calls == CommitCallsBefore(Boundaries[k].lineNumber)
        IN  IF calls = {}
            THEN Boundaries[k].description = <<"Successful commit">>
            ELSE \E j \in calls :
                   /\ \A n \in calls : n <= j
                   /\ Boundaries[k].description
                        = <<"Git commit: ", QuotedMessage(lines[j + 1].command)>>

\* two git commit tool_calls with different messages precede a commit
\* result, whose boundary takes the message of the nearer one
C28_Witness ==
  /\ Analyzed
  /\ Len(lines) = 3
  /\ CommitCallsBefore(2) = {0, 1}
  /\ QuotedMessage(lines[1].command) # QuotedMessage(lines[2].command)
  /\ \E k \in 1..Len(Boundaries) :
        /\ Boundaries[k].type = "git_commit"
        /\ Boundaries[k].lineNumber = 2
        /\ Boundaries[k].description
             = <<"Git commit: ", QuotedMessage(lines[2].command)>>

(* ------------------------- the command line --------------------------- *)

MaxCliLen == 2

\* opts.keep as commander leaves it: undefined without -k, else
\* parseInt(value), which is NaN for a value that has no leading digits
NoKeep == [given |-> FALSE, nan |-> FALSE, val |-> 0]

KeepNaN == [given |-> TRUE, nan |-> TRUE, val |-> 0]

KeepNumber(n) == [given |-> TRUE, nan |-> FALSE, val |-> n]

KeepNumbers == {KeepNumber(n) : n \in 0..MaxKeep}

\* JavaScript truthiness of opts.keep: undefined, NaN and 0 are falsy
Truthy(keep) == keep.given /\ ~keep.nan /\ keep.val # 0

\* the default command's action: if (opts.keep) main(...) else boundaryPrune(...)
DefaultAction(keep) == IF Truthy(keep) THEN "main" ELSE "boundaryPrune"

InitCli ==
  /\ lines \in SeqsUpTo(BoundaryLines, MaxCliLen)
  /\ pc = "input"
  /\ op = "none"
  /\ arg = 0
  /\ res = NoResult
  /\ src = <<>>
  /\ analysis = NoAnalysis
  /\ rewrites = <<>>
  /\ res2 = NoResult
  /\ cli = NoCli
  /\ hook = NoHook

\* the program is started: `ccc [sessionId] [-k n] [--dry-run]` (the default
\* command) or `ccc prune [sessionId] -k n [--dry-run]`; file is the content
\* of <sessionId>.jsonl, backups the content of prune-backup/
CliStart ==
  /\ cli.step = "idle"
  /\ \E command \in {"default", "prune"}, dryRun \in BOOLEAN,
        keep \in {NoKeep, KeepNaN} \cup KeepNumbers :
       /\ command = "prune" => keep \in KeepNumbers
       /\ cli' = [step     |-> "running",
                  command  |-> command,
                  keep     |-> keep,
                  dryRun   |-> dryRun,
                  mode     |-> IF command = "prune" THEN "main"
                               ELSE DefaultAction(keep),
                  file     |-> lines,
                  backups  |-> {},
                  writes   |-> 0,
                  copyFailed |-> FALSE]
  /\ UNCHANGED <<lines, pc, op, arg, res, src, analysis, rewrites, res2, hook>>

\* main(sessionId, opts) up to the backup: existence check, confirmation,
\* read, pruneSessionLines(lines, opts.keep), dry-run return
CliMain ==
  /\ cli.step = "running"
  /\ cli.mode = "main"
  /\ \E exists \in BOOLEAN, ok \in BOOLEAN :
       IF ~exists
       THEN /\ cli' = [cli EXCEPT !.step = "exit1"]
            /\ UNCHANGED <<pc, op, arg, res, src>>
       ELSE IF ~cli.dryRun /\ ~ok
       THEN /\ cli' = [cli EXCEPT !.step = "exit0"]
            /\ UNCHANGED <<pc, op, arg, res, src>>
       ELSE /\ res' = pruneSessionLines(cli.file, cli.keep.val)
            /\ src' = PslSrc(cli.file, cli.keep.val)
            /\ arg' = cli.keep.val
            /\ op' = "pruneSessionLines"
            /\ pc' = "done"
            /\ cli' = [cli EXCEPT !.step = IF cli.dryRun THEN "return"
                                            ELSE "backup"]
  /\ UNCHANGED <<lines, analysis, rewrites, res2, hook>>

\* boundaryPrune(sessionId, opts) up to the backup: existence check, read,
\* detectBoundaries, the selection prompt with its Cancel entry, confirmation,
\* pruneToBoundary(lines, selectedBoundary.lineNumber), dry-run return
CliBoundaryPrune ==
  /\ cli.step = "running"
  /\ cli.mode = "boundaryPrune"
  /\ \E exists \in BOOLEAN, ok \in BOOLEAN,
        choice \in 0..Len(detectBoundaries(cli.file).boundaries) :
       IF ~exists
       THEN /\ cli' = [cli EXCEPT !.step = "exit1"]
            /\ UNCHANGED <<pc, op, arg, res, src, analysis>>
       ELSE /\ analysis' = detectBoundaries(cli.file)
            /\ IF choice = 0 \/ (~cli.dryRun /\ ~ok)
               THEN /\ cli' = [cli EXCEPT !.step = "return"]
                    /\ op' = "detectBoundaries"
                    /\ pc' = "analyzed"
                    /\ UNCHANGED <<arg, res, src>>
               ELSE LET b == analysis'.boundaries[choice].lineNumber
                    IN  /\ res' = pruneToBoundary(cli.file, b)
                        /\ src' = PtbSrc(cli.file, b)
                        /\ arg' = b
                        /\ op' = "boundaryPrune"
                        /\ pc' = "done"
                        /\ cli' = [cli EXCEPT !.step =
                                     IF cli.dryRun THEN "return" ELSE "backup"]
  /\ UNCHANGED <<lines, rewrites, res2, hook>>

\* mutant: the flow goes on to the write without having made the copy
CliBackup_Skipped ==
  /\ cli.step = "backup"
  /\ cli' = [cli EXCEPT !.step = "write"]
  /\ UNCHANGED <<lines, pc, op, arg, res, src, analysis, rewrites, res2, hook>>

\* ensureDir(backupDir); copyFile(file, `${sessionId}.jsonl.${Date.now()}`):
\* either call may throw, which ends the run before the write
CliBackup ==
  /\ cli.step = "backup"
  /\ \E copied \in BOOLEAN, ms \in 1..2 :
       cli' = IF copied
              THEN [cli EXCEPT !.step = "write",
                               !.backups = @ \cup {[ms |-> ms, content |-> cli.file]}]
              ELSE [cli EXCEPT !.step = "rejected", !.copyFailed = TRUE]
  /\ UNCHANGED <<lines, pc, op, arg, res, src, analysis, rewrites, res2, hook>>

\* writeFile(file, outLines.join("\n") + "\n"): the file holds the output lines
CliWrite ==
  /\ cli.step = "write"
  /\ cli' = [cli EXCEPT !.step = "written",
                        !.file = res.outLines,
                        !.writes = @ + 1]
  /\ UNCHANGED <<lines, pc, op, arg, res, src, analysis, rewrites, res2, hook>>

NextCli ==
  \/ CliStart
  \/ CliMain
  \/ CliBoundaryPrune
  \/ CliBackup
  \/ CliWrite

\* one run of the program from the command line to the written file
SpecCli == InitCli /\ [][NextCli]_vars

(* ------------------------------ restore ------------------------------- *)

MaxFiles == 3

\* file names are sequences of characters
Concat(a, b, c) == a \o <<".">> \o b \o <<".">> \o c

Jsonl == <<"j", "s", "o", "n", "l">>

SessionIds == {<<"a", "1">>, <<"b", "2">>}

\* the entries readdir(backupDir) may list
BackupFileNames ==
  { Concat(<<"a", "1">>, Jsonl, <<"1", "0", "0", "0">>),
    Concat(<<"a", "1">>, Jsonl, <<"3", "0", "0", "0">>),
    Concat(<<"a", "1">>, Jsonl, <<"2", "0", "0", "0">>),
    Concat(<<"b", "2">>, Jsonl, <<"5", "0", "0", "0">>),
    Concat(<<"a", "1", "-", "x">>, Jsonl, <<"4", "0", "0", "0">>),
    Concat(<<"a", "1">>, <<"t", "x", "t">>, <<"9", "0", "0", "0">>),
    <<"a", "1">> \o <<".">> \o Jsonl,
    Concat(<<"a", "1">>, Jsonl, <<"a", "b", "c">>),
    Concat(<<"a", "1">>, Jsonl, <<"4", "0", "0", "0", "~">>),
    Concat(<<"a", "1">>, Jsonl, <<>>),
    Concat(<<"a", "1">>, Jsonl, <<"0", "x", "1", "f">>) }

\* the sequences of distinct names of length at most n
DistinctSeqsUpTo(S, n) ==
  {q \in SeqsUpTo(S, n) : \A i, j \in 1..Len(q) : q[i] = q[j] => i = j}

\* f.startsWith(prefix)
StartsWith(f, prefix) ==
  Len(f) >= Len(prefix) /\ SubSeq(f, 1, Len(prefix)) = prefix

\* f.split('.').pop(): the characters after the last dot (all of f without one)
LastSegment(f) ==
  LET dots == {i \in 1..Len(f) : f[i] = "."}
      last == IF dots = {} THEN 0 ELSE CHOOSE i \in dots : \A j \in dots : j <= i
  IN  SubSeq(f, last + 1, Len(f))

HexDigits ==
  <<"0", "1", "2", "3", "4", "5", "6", "7", "8", "9", "a", "b", "c", "d", "e", "f">>

\* the value of character c as a digit in the radix, -1 if it is none
DigitValue(c, radix) ==
  LET c1 == CASE c = "A" -> "a" [] c = "B" -> "b" [] c = "C" -> "c"
              [] c = "D" -> "d" [] c = "E" -> "e" [] c = "F" -> "f"
              [] OTHER -> c
      at == {k \in 1..radix : HexDigits[k] = c1}
  IN  IF at = {} THEN 0 - 1 ELSE (CHOOSE k \in at : TRUE) - 1

NaN == [nan |-> TRUE, val |-> 0]

\* parseInt(text) without a radix: leading blanks are skipped, a sign is
\* taken, a 0x prefix selects radix 16, then the longest run of digits is
\* read; NaN when that run is empty
ParseInt(text) ==
  LET blanks == {i \in 0..Len(text) : \A j \in 1..i : text[j] = " "}
      b == CHOOSE i \in blanks : \A j \in blanks : j <= i
      t1 == SubSeq(text, b + 1, Len(text))
      signed == t1 # <<>> /\ t1[1] \in {"+", "-"}
      sign == IF t1 # <<>> /\ t1[1] = "-" THEN 0 - 1 ELSE 1
      t2 == IF signed THEN SubSeq(t1, 2, Len(t1)) ELSE t1
      hex == Len(t2) >= 2 /\ t2[1] = "0" /\ t2[2] \in {"x", "X"}
      radix == IF hex THEN 16 ELSE 10
      t3 == IF hex THEN SubSeq(t2, 3, Len(t2)) ELSE t2
      runs == {i \in 0..Len(t3) : \A j \in 1..i : DigitValue(t3[j], radix) >= 0}
      n == CHOOSE i \in runs : \A j \in runs : j <= i
      value[i \in 0..n] ==
        IF i = 0 THEN 0 ELSE value[i - 1] * radix + DigitValue(t3[i], radix)
  IN  IF n = 0 THEN NaN ELSE [nan |-> FALSE, val |-> sign * value[n]]

\* parseInt(f.split('.').pop() || '0'): the empty string is falsy
BackupTimestamp(f) ==
  ParseInt(IF LastSegment(f) = <<>> THEN <<"0">> ELSE LastSegment(f))

\* .sort((a, b) => b.timestamp - a.timestamp): a stable sort, by insertion
RECURSIVE SortByTimestampDesc(_)
SortByTimestampDesc(bs) ==
  IF bs = <<>> THEN <<>>
  ELSE LET sorted == SortByTimestampDesc(SubSeq(bs, 1, Len(bs) - 1))
           b == bs[Len(bs)]
           n == Cardinality({k \in 1..Len(sorted) :
                               sorted[k].timestamp >= b.timestamp})
       IN  SubSeq(sorted, 1, n) \o <<b>> \o SubSeq(sorted, n + 1, Len(sorted))

Null == [null |-> TRUE, name |-> <<>>, timestamp |-> 0]

findLatestBackup(backupFiles, sessionId) ==
  LET prefix == sessionId \o <<".">> \o Jsonl \o <<".">>
      named == SelectSeq(backupFiles, LAMBDA f : StartsWith(f, prefix))
      valid == SelectSeq(named, LAMBDA f : ~BackupTimestamp(f).nan)
      mapped == [i \in 1..Len(valid) |->
                   [null |-> FALSE, name |-> valid[i],
                    timestamp |-> BackupTimestamp(valid[i]).val]]
      sessionBackups == SortByTimestampDesc(mapped)
  IN  IF Len(sessionBackups) > 0 THEN sessionBackups[1] ELSE Null

InitRestore ==
  /\ lines = <<>>
  /\ pc = "input"
  /\ op = "none"
  /\ arg = 0
  /\ res = NoResult
  /\ src = <<>>
  /\ analysis = NoAnalysis
  /\ rewrites = <<>>
  /\ res2 = NoResult
  /\ cli = NoCli
  /\ hook = NoHook

\* `ccc restore <sessionId> [--dry-run]` is started; backupFiles is what
\* readdir(backupDir) will return
RestoreStart ==
  /\ cli.step = "idle"
  /\ \E sessionId \in SessionIds, dryRun \in BOOLEAN, dirExists \in BOOLEAN,
        backupFiles \in DistinctSeqsUpTo(BackupFileNames, MaxFiles) :
       /\ ~dirExists => backupFiles = <<>>
       /\ cli' = [step |-> "restore", command |-> "restore",
                  sessionId |-> sessionId, dryRun |-> dryRun,
                  dirExists |-> dirExists, backupFiles |-> backupFiles,
                  latestBackup |-> Null, restoredFrom |-> <<>>]
  /\ UNCHANGED <<lines, pc, op, arg, res, src, analysis, rewrites, res2, hook>>

\* restore(sessionId, opts) up to the copy: directory check, readdir,
\* findLatestBackup, dry-run return, confirmation
RestoreFind ==
  /\ cli.step = "restore"
  /\ \E ok \in BOOLEAN :
       IF ~cli.dirExists
       THEN cli' = [cli EXCEPT !.step = "exit1"]
       ELSE LET latestBackup == findLatestBackup(cli.backupFiles, cli.sessionId)
            IN  cli' = [cli EXCEPT
                  !.latestBackup = latestBackup,
                  !.step = IF latestBackup.null THEN "exit1"
                           ELSE IF cli.dryRun THEN "return"
                           ELSE IF ~ok THEN "exit0"
                           ELSE "copy"]
  /\ UNCHANGED <<lines, pc, op, arg, res, src, analysis, rewrites, res2, hook>>

\* copyFile(backupPath, file); a rejection is caught and exits with 1
RestoreCopy ==
  /\ cli.step = "copy"
  /\ \E copied \in BOOLEAN :
       cli' = IF copied
              THEN [cli EXCEPT !.step = "restored",
                               !.restoredFrom = cli.latestBackup.name]
              ELSE [cli EXCEPT !.step = "exit1"]
  /\ UNCHANGED <<lines, pc, op, arg, res, src, analysis, rewrites, res2, hook>>

NextRestore ==
  \/ RestoreStart
  \/ RestoreFind
  \/ RestoreCopy

\* one run of the restore command
SpecRestore == InitRestore /\ [][NextRestore]_vars

\* the program has been started from the command line
CliStarted == cli.step # "idle"

(* C29: given a -k value (any integer, 0 included) the default command runs
   main and never boundaryPrune; boundaryPrune runs only without a -k flag.
   The statement as the specification gives it: violated by -k 0, for which
   opts.keep is falsy *)
C29_Original ==
  (CliStarted /\ cli.command = "default" /\ ~cli.keep.nan)
    => (cli.mode = "main" <=> cli.keep.given)

(* C21: in main and boundaryPrune the session file is written only when the
   run is not a dry run and only after a copy of the file's content exists
   under prune-backup/<sessionId>.jsonl.<ms>; in a dry run, or when the copy
   fails, the file is never written *)
C21_WriteOnlyAfterBackup ==
  CliStarted =>
    /\ cli.writes > 0 =>
         /\ ~cli.dryRun
         /\ \E b \in cli.backups : b.content = lines
    /\ (cli.dryRun \/ cli.copyFailed) => (cli.writes = 0 /\ cli.file = lines)
    /\ cli.writes = 0 => cli.file = lines

C21_Witness ==
  /\ CliStarted
  /\ cli.writes > 0
  /\ cli.backups # {}
  /\ cli.file # lines

\* findLatestBackup has returned for the listed directory
BackupSearched ==
  cli.step \in {"exit1", "return", "exit0", "copy", "restored"} /\ cli.dirExists

\* the text is a number written in decimal digits
Numeric(text) ==
  text # <<>> /\ \A i \in 1..Len(text) : DigitValue(text[i], 10) >= 0

\* the listed names that start with <sessionId>.jsonl. and end in a number
NumberedBackups ==
  {i \in 1..Len(cli.backupFiles) :
     /\ StartsWith(cli.backupFiles[i], cli.sessionId \o <<".">> \o Jsonl \o <<".">>)
     /\ Numeric(LastSegment(cli.backupFiles[i]))}

(* C22: findLatestBackup returns the entry with the greatest timestamp among
   the names that start with <sessionId>.jsonl. and whose last suffix is a
   number, null when there is none; names of other sessions, names without
   a timestamp and names with a non-numeric suffix are never returned.
   The statement as the specification gives it: violated by a name such
   as a1.jsonl.4000~ and by a1.jsonl. (empty suffix) *)
C22_Original ==
  BackupSearched =>
    IF NumberedBackups = {}
    THEN cli.latestBackup.null
    ELSE /\ ~cli.latestBackup.null
         /\ \E i \in NumberedBackups :
              /\ cli.latestBackup.name = cli.backupFiles[i]
              /\ cli.latestBackup.timestamp = BackupTimestamp(cli.backupFiles[i]).val
              /\ \A j \in NumberedBackups :
                   BackupTimestamp(cli.backupFiles[j]).val <= cli.latestBackup.timestamp

(* -------------------------- hook dispatcher --------------------------- *)

\* psutil.pid_exists(pid): the process has started and has not exited;
\* pid 0 stands for a process of an earlier run that is gone
is_process_running(pid) ==
  pid \in Procs /\ hook.at[pid] \notin {"idle", "exited"}

\* the project has no lock file, or one left behind by a process that is gone
InitHook ==
  /\ lines = <<>>
  /\ pc = "input"
  /\ op = "none"
  /\ arg = 0
  /\ res = NoResult
  /\ src = <<>>
  /\ analysis = NoAnalysis
  /\ rewrites = <<>>
  /\ res2 = NoResult
  /\ cli = NoCli
  /\ hook \in {NoHook, [NoHook EXCEPT !.lock = [exists |-> TRUE, pid |-> 0]]}

\* main() up to acquire_lock: json.load(sys.stdin) raises on malformed input
\* (handled by `except Exception`), no configured or suitable variant exits
HookStart(p) ==
  /\ hook.at[p] = "idle"
  /\ \E input \in {"malformed", "no variant", "variant"} :
       hook' = [hook EXCEPT !.at[p] =
                  CASE input = "malformed" -> "except"
                    [] input = "no variant" -> "exited"
                    [] OTHER -> "acquire"]
  /\ UNCHANGED <<lines, pc, op, arg, res, src, analysis, rewrites, res2, cli>>

\* acquire_lock: if lock_file.exists()
HookExists(p) ==
  /\ hook.at[p] = "acquire"
  /\ hook' = [hook EXCEPT !.at[p] = IF hook.lock.exists THEN "read" ELSE "write"]
  /\ UNCHANGED <<lines, pc, op, arg, res, src, analysis, rewrites, res2, cli>>

\* acquire_lock: read the lock file; return False (and exit) when its process
\* is running, go on to write when it is not or when reading raised. A lock
\* written in this run is younger than MAX_LOCK_AGE_SECONDS: execute_hook
\* gives up after 30 seconds
HookRead(p) ==
  /\ hook.at[p] = "read"
  /\ hook' = [hook EXCEPT !.at[p] =
                IF hook.lock.exists /\ is_process_running(hook.lock.pid)
                THEN "exited" ELSE "write"]
  /\ UNCHANGED <<lines, pc, op, arg, res, src, analysis, rewrites, res2, cli>>

\* acquire_lock: lock_file.write_text(...) with os.getpid(); return True, or
\* False (and exit) when writing raised
HookWrite(p) ==
  /\ hook.at[p] = "write"
  /\ \E written \in BOOLEAN :
       hook' = IF written
               THEN [hook EXCEPT !.at[p] = "held",
                                 !.lock = [exists |-> TRUE, pid |-> p]]
               ELSE [hook EXCEPT !.at[p] = "exited"]
  /\ UNCHANGED <<lines, pc, op, arg, res, src, analysis, rewrites, res2, cli>>

\* execute_hook(variant_script, input_data) returns
HookExecute(p) ==
  /\ hook.at[p] = "held"
  /\ hook' = [hook EXCEPT !.at[p] = "finally"]
  /\ UNCHANGED <<lines, pc, op, arg, res, src, analysis, rewrites, res2, cli>>

\* release_lock(): lock_file.unlink(missing_ok=True), from the finally clause
\* and from the handler of `except Exception`; then sys.exit(0)
HookRelease(p) ==
  /\ hook.at[p] \in {"finally", "except"}
  /\ hook' = [hook EXCEPT
       !.at[p] = "exited",
       !.lock = NoLock,
       !.removed = IF /\ hook.lock.exists
                      /\ hook.lock.pid # p
                      /\ hook.lock.pid \in Procs
                      /\ hook.at[hook.lock.pid] \in {"held", "finally"}
                   THEN 1 ELSE @]
  /\ UNCHANGED <<lines, pc, op, arg, res, src, analysis, rewrites, res2, cli>>

NextHook ==
  \E p \in Procs :
    \/ HookStart(p)
    \/ HookExists(p)
    \/ HookRead(p)
    \/ HookWrite(p)
    \/ HookExecute(p)
    \/ HookRelease(p)

\* dispatcher processes of one project, interleaved at their file operations
SpecHook == InitHook /\ [][NextHook]_vars

\* the processes between a successful acquire_lock and their release_lock
Holders == {p \in Procs : hook.at[p] \in {"held", "finally"}}

(* C23: for any interleaving of dispatcher processes of one project, at most
   one process at a time is between a successful acquire_lock and its
   release_lock, and no process removes a lock that another running process
   holds.
   The statement as the specification gives it: violated when two processes
   both find no lock file before either writes it, and when a process given
   malformed input releases a lock it never acquired *)
C23_Original ==
  /\ Cardinality(Holders) <= 1
  /\ hook.removed = 0


====
